---- MODULE Spec2Model ----
(***************************************************************************)
(* Model of resource-gather.py: the quantity converters                    *)
(* (convert_memory_to_bytes, convert_memory_to_gib, convert_memory_to_mib, *)
(* format_cpu_cores, format_cpu_m) and the scan of `oc describe node` text *)
(* in get_node_details.                                                    *)
(*                                                                         *)
(* A Python str is a sequence of one-character strings, so that parsing    *)
(* and formatting are computed character by character.  A Python int that  *)
(* holds a byte count is a little-endian sequence of base-1024 limbs (TLC  *)
(* integers are 32 bits wide, 1 TiB is 2^40).  A Python float parsed from  *)
(* a decimal literal is the exact rational m / 10^e: within the input sets *)
(* below (at most MaxNum characters before the unit, no digit 5) the exact *)
(* value and the IEEE double agree on every int(), round() and format()    *)
(* the code takes, and values beyond 2^53 are rounded by Round53Sticky.     *)
(***************************************************************************)
EXTENDS Integers, Sequences, FiniteSets, TLC

VARIABLES
    \* ---- converter calls ----
    value,          \* the quantity string a converter is called with
    numfmt_ok,      \* whether the numfmt utility is installed
    fn,             \* name of the converter called first ("" before the call)
    result,         \* what it returned or that it raised
    fn2,            \* name of the converter applied to that result
    result2,
    \* ---- get_node_details ----
    pc,                         \* position in get_node_details
    node_data,                  \* status.capacity of the node JSON
    node_describe_output,       \* splitlines() of the describe text
    cpu_capacity_formatted, mem_capacity_formatted,
    in_block, allocated_resources_block,
    cpu_req, cpu_limit, mem_req_raw, mem_limit_raw,
    num_pods,
    in_pods_block, lines_skipped, non_terminated_pods_block,
    pod_details_data,
    node_summary_data,
    in_block_at,                \* in_block after each line of the first loop
    in_pods_block_at,           \* in_pods_block after each line of the pods loop
    skipped_at                  \* lines_skipped after each line of the pods loop

conv_vars == <<value, numfmt_ok, fn, result, fn2, result2>>
node_vars == <<pc, node_data, node_describe_output, cpu_capacity_formatted,
               mem_capacity_formatted, in_block, allocated_resources_block,
               cpu_req, cpu_limit, mem_req_raw, mem_limit_raw, num_pods,
               in_pods_block, lines_skipped, non_terminated_pods_block,
               pod_details_data, node_summary_data, in_block_at,
               in_pods_block_at, skipped_at>>
vars == <<conv_vars, node_vars>>

----------------------------------------------------------------------------
\* Bounds of the input sets.

\* longest numeric part of a quantity string given to a converter
MaxNum == 3
\* longest describe text, in lines, for the Allocated-resources inputs
MaxAllocLines == 4
\* longest describe text, in lines, for the Non-terminated-Pods inputs
MaxPodLines == 5

----------------------------------------------------------------------------
\* Characters and small integers.

Digit == {"0", "1", "2", "3", "4", "5", "6", "7", "8", "9"}

DigitVal(c) ==
    CASE c = "0" -> 0 [] c = "1" -> 1 [] c = "2" -> 2 [] c = "3" -> 3
      [] c = "4" -> 4 [] c = "5" -> 5 [] c = "6" -> 6 [] c = "7" -> 7
      [] c = "8" -> 8 [] c = "9" -> 9

DigitChr(n) == <<"0", "1", "2", "3", "4", "5", "6", "7", "8", "9">>[n + 1]

RECURSIVE Pow(_, _)
Pow(b, n) == IF n = 0 THEN 1 ELSE b * Pow(b, n - 1)

RECURSIVE IntFromDigits(_, _)
IntFromDigits(ds, acc) ==
    IF ds = <<>> THEN acc
    ELSE IntFromDigits(Tail(ds), acc * 10 + DigitVal(Head(ds)))

RECURSIVE IntDigits(_)
IntDigits(n) == IF n = 0 THEN <<>> ELSE IntDigits(n \div 10) \o <<DigitChr(n % 10)>>

\* str(n) of a non-negative int
IntStr(n) == IF n = 0 THEN <<"0">> ELSE IntDigits(n)

\* str.lower() on the letters of the unit suffixes
Lower(c) ==
    CASE c = "K" -> "k" [] c = "M" -> "m" [] c = "G" -> "g" [] c = "T" -> "t"
      [] c = "P" -> "p" [] c = "E" -> "e" [] c = "Z" -> "z" [] c = "Y" -> "y"
      [] c = "B" -> "b" [] c = "I" -> "i" [] OTHER -> c

LowerStr(s) == [i \in 1..Len(s) |-> Lower(s[i])]

StartsWith(s, p) == Len(s) >= Len(p) /\ SubSeq(s, 1, Len(p)) = p

EndsWith(s, p) == Len(s) >= Len(p) /\ SubSeq(s, Len(s) - Len(p) + 1, Len(s)) = p

\* p in s, for strings
Contains(s, p) ==
    \/ p = <<>>
    \/ \E i \in 1..(Len(s) - Len(p) + 1) :
           s[i] = p[1] /\ SubSeq(s, i, i + Len(p) - 1) = p

----------------------------------------------------------------------------
\* Python ints of any size: little-endian base-1024 limbs, no leading zero
\* limb, 0 is <<>>.

Limb == 1024

RECURSIVE BigTrim(_)
BigTrim(x) ==
    IF x # <<>> /\ x[Len(x)] = 0 THEN BigTrim(SubSeq(x, 1, Len(x) - 1)) ELSE x

RECURSIVE BigFromInt(_)
BigFromInt(n) == IF n = 0 THEN <<>> ELSE <<n % Limb>> \o BigFromInt(n \div Limb)

\* x * c + carry, for 0 <= c <= 2^20
RECURSIVE BigMulAdd(_, _, _)
BigMulAdd(x, c, carry) ==
    IF x = <<>> THEN BigFromInt(carry)
    ELSE LET t == x[1] * c + carry
         IN  <<t % Limb>> \o BigMulAdd(Tail(x), c, t \div Limb)

\* x * 1024^k
BigShift(x, k) == IF x = <<>> THEN <<>> ELSE [i \in 1..k |-> 0] \o x

\* quotient (untrimmed) and remainder of x by c, for 0 < c <= 2^20
RECURSIVE BigDivRem(_, _)
BigDivRem(x, c) ==
    IF x = <<>> THEN [q |-> <<>>, r |-> 0]
    ELSE LET hi == BigDivRem(Tail(x), c)
             t  == hi.r * Limb + x[1]
         IN  [q |-> <<t \div c>> \o hi.q, r |-> t % c]

BigDiv(x, c) == BigTrim(BigDivRem(x, c).q)

\* floor(x / 10^e)
RECURSIVE BigDivPow10(_, _)
BigDivPow10(x, e) == IF e = 0 THEN x ELSE BigDivPow10(BigDiv(x, 10), e - 1)

\* ceil(x / 10^e)
RECURSIVE Pow10Exact(_, _)
Pow10Exact(x, e) ==
    IF e = 0 THEN TRUE
    ELSE BigDivRem(x, 10).r = 0 /\ Pow10Exact(BigDiv(x, 10), e - 1)

BigCeilDivPow10(x, e) ==
    IF Pow10Exact(x, e) THEN BigDivPow10(x, e)
    ELSE BigTrim(BigMulAdd(BigDivPow10(x, e), 1, 1))

RECURSIVE BigFromDigits(_, _)
BigFromDigits(ds, acc) ==
    IF ds = <<>> THEN acc
    ELSE BigFromDigits(Tail(ds), BigTrim(BigMulAdd(acc, 10, DigitVal(Head(ds)))))

RECURSIVE BigDigits(_)
BigDigits(x) ==
    IF x = <<>> THEN <<>>
    ELSE BigDigits(BigDiv(x, 10)) \o <<DigitChr(BigDivRem(x, 10).r)>>

\* str(x)
BigStr(x) == IF x = <<>> THEN <<"0">> ELSE BigDigits(x)

\* x <= y
RECURSIVE BigLeq(_, _)
BigLeq(x, y) ==
    IF Len(x) # Len(y) THEN Len(x) < Len(y)
    ELSE IF x = <<>> THEN TRUE
    ELSE IF x[Len(x)] # y[Len(y)] THEN x[Len(x)] < y[Len(y)]
    ELSE BigLeq(SubSeq(x, 1, Len(x) - 1), SubSeq(y, 1, Len(y) - 1))

\* x + y
RECURSIVE BigAddC(_, _, _)
BigAddC(x, y, carry) ==
    IF x = <<>> /\ y = <<>> THEN BigFromInt(carry)
    ELSE LET a == IF x = <<>> THEN 0 ELSE x[1]
             b == IF y = <<>> THEN 0 ELSE y[1]
             t == a + b + carry
         IN  <<t % Limb>> \o BigAddC(IF x = <<>> THEN <<>> ELSE Tail(x),
                                     IF y = <<>> THEN <<>> ELSE Tail(y),
                                     t \div Limb)

BigAdd(x, y) == BigTrim(BigAddC(x, y, 0))

\* number of bits of a limb
RECURSIVE BitLen(_)
BitLen(n) == IF n = 0 THEN 0 ELSE 1 + BitLen(n \div 2)

BigBits(x) == IF x = <<>> THEN 0 ELSE 10 * (Len(x) - 1) + BitLen(x[Len(x)])

\* int(f) for the double f nearest to x + (a fraction, nonzero iff sticky):
\* the value is rounded to 53 significant bits, ties to even, then truncated
Round53Sticky(x, sticky) ==
    IF BigBits(x) <= 53 THEN x
    ELSE LET s    == BigBits(x) - 53
             d    == BigDivRem(x, Pow(2, s))
             q    == BigTrim(d.q)
             half == Pow(2, s - 1)
             up   == d.r > half \/ (d.r = half /\ (sticky \/ q[1] % 2 = 1))
         IN  BigTrim(BigMulAdd(IF up THEN BigTrim(BigMulAdd(q, 1, 1)) ELSE q,
                               Pow(2, s), 0))

----------------------------------------------------------------------------
\* Python floats and return values.

Ret(v) == [exc |-> FALSE, val |-> v]

\* an uncaught ValueError
Raise == [exc |-> TRUE, val |-> <<>>]

NumChar == Digit \cup {"."}

\* float(s) succeeds.  Over the characters of the input sets (digits, ".",
\* unit letters, "x", the letters of "cores") the accepted strings are the
\* plain decimal literals: digits with at most one "." and at least one digit.
IsFloatLit(s) ==
    /\ s # <<>>
    /\ \A i \in 1..Len(s) : s[i] \in NumChar
    /\ Cardinality({i \in 1..Len(s) : s[i] = "."}) <= 1
    /\ \E i \in 1..Len(s) : s[i] \in Digit

DotAt(s) == IF \E i \in 1..Len(s) : s[i] = "."
            THEN CHOOSE i \in 1..Len(s) : s[i] = "." ELSE 0

\* the digits of a literal, without the "."
LitDigits(s) == SelectSeq(s, LAMBDA c : c # ".")

\* the number of digits after the "."
LitScale(s) == IF DotAt(s) = 0 THEN 0 ELSE Len(s) - DotAt(s)

\* round(a / b) for a >= 0, b > 0, ties to even
RoundDiv(a, b) ==
    LET q == a \div b
        r == a % b
    IN  IF 2 * r > b \/ (2 * r = b /\ q % 2 = 1) THEN q + 1 ELSE q

\* round(x / 1024^k), ties to even
BigRoundShift(x, k) ==
    LET lo      == [i \in 1..k |-> IF i <= Len(x) THEN x[i] ELSE 0]
        q       == IF Len(x) > k THEN SubSeq(x, k + 1, Len(x)) ELSE <<>>
        lowzero == \A i \in 1..(k - 1) : lo[i] = 0
        above   == lo[k] > 512 \/ (lo[k] = 512 /\ ~lowzero)
        tie     == lo[k] = 512 /\ lowzero
        odd     == q # <<>> /\ q[1] % 2 = 1
    IN  IF above \/ (tie /\ odd) THEN BigTrim(BigMulAdd(q, 1, 1)) ELSE q

\* f"{h / 100:.2f}" from the digits of the hundredths h
Fixed2(ds) ==
    LET p == IF Len(ds) < 3 THEN [i \in 1..(3 - Len(ds)) |-> "0"] \o ds ELSE ds
    IN  SubSeq(p, 1, Len(p) - 2) \o <<".">> \o SubSeq(p, Len(p) - 1, Len(p))

----------------------------------------------------------------------------
\* convert_memory_to_bytes

UnitLetter == {"K", "M", "G", "T", "P", "E", "Z", "Y"}

\* length of the longest prefix of s that matches [0-9.]*
RECURSIVE NumPrefixLen(_)
NumPrefixLen(s) ==
    IF s # <<>> /\ Head(s) \in NumChar THEN 1 + NumPrefixLen(Tail(s)) ELSE 0

\* s matches ([KMGTPEZY]i?B?)?$
UnitSyntax(s) ==
    \/ s = <<>>
    \/ /\ s[1] \in UnitLetter
       /\ Tail(s) \in {<<>>, <<"i">>, <<"B">>, <<"i", "B">>}

\* the power of 1024 the lower-cased unit selects
UnitPower(unit) ==
    IF unit \in {<<"k", "i">>, <<"k">>, <<"k", "i", "b">>} THEN 1
    ELSE IF unit \in {<<"m", "i">>, <<"m">>, <<"m", "i", "b">>} THEN 2
    ELSE IF unit \in {<<"g", "i">>, <<"g">>, <<"g", "i", "b">>} THEN 3
    ELSE IF unit \in {<<"t", "i">>, <<"t">>, <<"t", "i", "b">>} THEN 4
    ELSE 0

\* `numfmt --from=iec s` followed by int(float(stdout)): GNU numfmt takes
\* digits with an optional fraction and at most one letter of KMGTPEZY,
\* scales by the power of 1024, rounds a scaled value up to an integer and
\* refuses a result of more than 19 digits; run_command turns a failure
\* into None.
NumfmtPower(c) ==
    CASE c = "K" -> 1 [] c = "M" -> 2 [] c = "G" -> 3 [] c = "T" -> 4
      [] c = "P" -> 5 [] c = "E" -> 6 [] c = "Z" -> 7 [] c = "Y" -> 8

numfmt(s) ==
    LET n    == NumPrefixLen(s)
        num  == SubSeq(s, 1, n)
        suf  == SubSeq(s, n + 1, Len(s))
        okn  == IsFloatLit(num) /\ num[Len(num)] # "."
        oks  == suf = <<>> \/ (Len(suf) = 1 /\ suf[1] \in UnitLetter)
        m    == BigFromDigits(LitDigits(num), <<>>)
        e    == LitScale(num)
        v    == IF suf = <<>> THEN BigDivPow10(m, e)
                ELSE BigCeilDivPow10(BigShift(m, NumfmtPower(suf[1])), e)
        frac == suf = <<>> /\ ~Pow10Exact(m, e)
    IN  IF ~numfmt_ok \/ ~okn \/ ~oks THEN [ok |-> FALSE, val |-> <<>>]
        ELSE IF Len(BigStr(v)) > 19 THEN [ok |-> FALSE, val |-> <<>>]
        ELSE [ok |-> TRUE, val |-> Round53Sticky(v, frac)]

\* the manual parse, lines 53-70
manual_parse(value_with_unit) ==
    LET n    == NumPrefixLen(value_with_unit)
        num  == SubSeq(value_with_unit, 1, n)
        rest == SubSeq(value_with_unit, n + 1, Len(value_with_unit))
        unit == LowerStr(rest)
        m    == BigFromDigits(LitDigits(num), <<>>)
        e    == LitScale(num)
    IN  IF n = 0 \/ ~UnitSyntax(rest) THEN Ret(<<>>)
        ELSE IF ~IsFloatLit(num) THEN Raise
        ELSE Ret(Round53Sticky(BigDivPow10(BigShift(m, UnitPower(unit)), e),
                               ~Pow10Exact(BigShift(m, UnitPower(unit)), e)))

convert_memory_to_bytes(value_with_unit) ==
    IF value_with_unit = <<>> THEN Ret(<<>>)
    ELSE IF numfmt(value_with_unit).ok THEN Ret(numfmt(value_with_unit).val)
    ELSE manual_parse(value_with_unit)

\* convert_memory_to_gib dividing by 1000^3 instead of 1024^3
convert_memory_to_gib_decimal(value_with_unit) ==
    LET mem_bytes == convert_memory_to_bytes(value_with_unit)
    IN  IF mem_bytes.exc THEN Raise
        ELSE IF mem_bytes.val = <<>> THEN Ret(<<>>)
        ELSE Ret(Fixed2(BigStr(BigDivPow10(
                     BigTrim(BigMulAdd(mem_bytes.val, 100, 0)), 9)))
                 \o <<"G", "i">>)

convert_memory_to_gib(value_with_unit) ==
    LET mem_bytes == convert_memory_to_bytes(value_with_unit)
    IN  IF mem_bytes.exc THEN Raise
        ELSE IF mem_bytes.val = <<>> THEN Ret(<<>>)
        ELSE Ret(Fixed2(BigStr(BigRoundShift(
                     BigTrim(BigMulAdd(mem_bytes.val, 100, 0)), 3)))
                 \o <<"G", "i">>)

convert_memory_to_mib(value_with_unit) ==
    LET mem_bytes == convert_memory_to_bytes(value_with_unit)
    IN  IF mem_bytes.exc THEN Raise
        ELSE IF mem_bytes.val = <<>> THEN Ret(<<>>)
        ELSE Ret(BigStr(BigRoundShift(mem_bytes.val, 2)) \o <<"M", "i">>)

----------------------------------------------------------------------------
\* format_cpu_cores, format_cpu_m

Cores == <<"c", "o", "r", "e", "s">>

\* format_cpu_cores taking the millicores before the m as cores
format_cpu_cores_nodiv(v) ==
    IF v = <<>> THEN Ret(<<>>)
    ELSE LET p == IF v[Len(v)] = "m" THEN SubSeq(v, 1, Len(v) - 1) ELSE v
         IN  IF IsFloatLit(p)
             THEN Ret(Fixed2(IntStr(RoundDiv(IntFromDigits(LitDigits(p), 0) * 100,
                                             Pow(10, LitScale(p)))))
                      \o Cores)
             ELSE IF v[Len(v)] = "m" THEN Raise ELSE Ret(v)

format_cpu_cores(v) ==
    IF v = <<>> THEN Ret(<<>>)
    ELSE IF v[Len(v)] = "m" THEN
        LET p == SubSeq(v, 1, Len(v) - 1)
        IN  IF ~IsFloatLit(p) THEN Raise
            ELSE Ret(Fixed2(IntStr(RoundDiv(IntFromDigits(LitDigits(p), 0) * 100,
                                            Pow(10, LitScale(p) + 3))))
                     \o Cores)
    ELSE IF IsFloatLit(v)
         THEN Ret(Fixed2(IntStr(RoundDiv(IntFromDigits(LitDigits(v), 0) * 100,
                                         Pow(10, LitScale(v)))))
                  \o Cores)
         ELSE Ret(v)

format_cpu_m(v) ==
    IF v = <<>> THEN Ret(<<>>)
    ELSE IF v[Len(v)] = "m" THEN Ret(v)
    ELSE IF IsFloatLit(v)
         THEN Ret(IntStr(RoundDiv(IntFromDigits(LitDigits(v), 0) * 1000,
                                  Pow(10, LitScale(v))))
                  \o <<"m">>)
         ELSE Ret(v)

----------------------------------------------------------------------------
\* Converter calls: a converter is applied to a quantity string, and a
\* converter may then be applied to what the first one returned.

NumChars == {"0", "1", "9", "."}

Suffixes ==
    { <<>>, <<"m">>, <<"K">>, <<"K", "i">>, <<"K", "i", "B">>, <<"k", "i">>,
      <<"M">>, <<"M", "i">>, <<"G">>, <<"G", "i">>, <<"T">>, <<"T", "i">>,
      <<"P">>, <<"B">>, <<"x">>, <<"x", "m">> }

Quantities ==
    { p \o s : p \in UNION { [1..n -> NumChars] : n \in 0..MaxNum },
               s \in Suffixes }

NoResult == [exc |-> FALSE, val |-> <<>>]

NodeIdle ==
    /\ pc = "idle"
    /\ node_data = <<>>
    /\ node_describe_output = <<>>
    /\ cpu_capacity_formatted = <<>>
    /\ mem_capacity_formatted = <<>>
    /\ in_block = FALSE
    /\ allocated_resources_block = <<>>
    /\ cpu_req = <<>>
    /\ cpu_limit = <<>>
    /\ mem_req_raw = <<>>
    /\ mem_limit_raw = <<>>
    /\ num_pods = <<"0">>
    /\ in_pods_block = FALSE
    /\ lines_skipped = 0
    /\ non_terminated_pods_block = <<>>
    /\ pod_details_data = <<>>
    /\ node_summary_data = <<>>
    /\ in_block_at = <<>>
    /\ in_pods_block_at = <<>>
    /\ skipped_at = <<>>

ConvInit ==
    /\ value \in Quantities
    /\ numfmt_ok \in BOOLEAN
    /\ fn = ""
    /\ result = NoResult
    /\ fn2 = ""
    /\ result2 = NoResult
    /\ NodeIdle

\* the argument of the next call: the input, or the string the first call
\* returned (convert_memory_to_bytes returns an int, not a quantity string)
Arg == IF fn = "" THEN value ELSE result.val

CanCall ==
    /\ pc = "idle"
    /\ fn2 = ""
    /\ fn # "" => ~result.exc /\ fn # "convert_memory_to_bytes"

Called(name, r) ==
    /\ IF fn = "" THEN fn' = name /\ result' = r /\ UNCHANGED <<fn2, result2>>
                  ELSE fn2' = name /\ result2' = r /\ UNCHANGED <<fn, result>>
    /\ UNCHANGED <<value, numfmt_ok, node_vars>>

CallBytes ==
    CanCall /\ Called("convert_memory_to_bytes", convert_memory_to_bytes(Arg))

CallGib ==
    CanCall /\ Called("convert_memory_to_gib", convert_memory_to_gib(Arg))

CallMib ==
    CanCall /\ Called("convert_memory_to_mib", convert_memory_to_mib(Arg))

CallCores ==
    CanCall /\ Called("format_cpu_cores", format_cpu_cores(Arg))

CallM ==
    CanCall /\ Called("format_cpu_m", format_cpu_m(Arg))

ConvNext == CallBytes \/ CallGib \/ CallMib \/ CallCores \/ CallM

ConvSpec == ConvInit /\ [][ConvNext]_vars

----------------------------------------------------------------------------
\* get_node_details: string operations.

WS == {" ", "\t", "\n"}

\* str.strip()
RECURSIVE LStrip(_)
LStrip(s) == IF s # <<>> /\ Head(s) \in WS THEN LStrip(Tail(s)) ELSE s

RECURSIVE RStrip(_)
RStrip(s) ==
    IF s # <<>> /\ s[Len(s)] \in WS THEN RStrip(SubSeq(s, 1, Len(s) - 1)) ELSE s

Strip(s) == RStrip(LStrip(s))

RECURSIVE WordLen(_)
WordLen(s) == IF s # <<>> /\ Head(s) \notin WS THEN 1 + WordLen(Tail(s)) ELSE 0

\* str.split()
RECURSIVE Split(_)
Split(s) ==
    IF s = <<>> THEN <<>>
    ELSE IF Head(s) \in WS THEN Split(Tail(s))
    ELSE <<SubSeq(s, 1, WordLen(s))>> \o Split(SubSeq(s, WordLen(s) + 1, Len(s)))

\* "\n".join(lines)
RECURSIVE Join(_)
Join(lines) ==
    IF lines = <<>> THEN <<>>
    ELSE IF Len(lines) = 1 THEN lines[1]
    ELSE lines[1] \o <<"\n">> \o Join(Tail(lines))

\* x in parts
In(x, parts) == \E i \in 1..Len(parts) : parts[i] = x

AllocHeader ==
    <<"A", "l", "l", "o", "c", "a", "t", "e", "d", " ", "r", "e", "s", "o",
      "u", "r", "c", "e", "s", ":">>

EventsHeader ==
    <<"E", "v", "e", "n", "t", "s", ":">>

LimitsNotice ==
    <<"T", "o", "t", "a", "l", " ", "l", "i", "m", "i", "t", "s", " ", "m",
      "a", "y", " ", "e", "x", "c", "e", "e", "d", " ", "a", "l", "l", "o",
      "c", "a", "t", "a", "b", "l", "e", " ", "r", "e", "s", "o", "u", "r",
      "c", "e", "s">>

ColumnHeader ==
    <<"R", "e", "s", "o", "u", "r", "c", "e", " ", " ", " ", " ", " ", " ",
      " ", " ", " ", " ", " ", "R", "e", "q", "u", "e", "s", "t", "s", " ",
      " ", " ", " ", " ", " ", " ", " ", " ", "L", "i", "m", "i", "t", "s">>

PodsHeader ==
    <<"N", "o", "n", "-", "t", "e", "r", "m", "i", "n", "a", "t", "e", "d",
      " ", "P", "o", "d", "s", ":">>

CpuWord == <<"c", "p", "u">>

MemoryWord == <<"m", "e", "m", "o", "r", "y">>

----------------------------------------------------------------------------
\* get_node_details: the scan of the describe text.

\* parts[i] if len(parts) > i else "" (i counted from 0)
Tok(parts, i) == IF Len(parts) > i THEN parts[i + 1] ELSE <<>>

\* the loop with every line of the open section kept, the notice and the
\* column header too
AllocLine_unfiltered(st, line) ==
    IF Contains(line, AllocHeader)
    THEN [in_block |-> TRUE, block |-> st.block, at |-> Append(st.at, FALSE)]
    ELSE LET ib == IF Contains(line, EventsHeader) THEN FALSE ELSE st.in_block
         IN  [in_block |-> ib,
              block |-> IF ib THEN Append(st.block, Strip(line)) ELSE st.block,
              at |-> Append(st.at, ib)]

\* one iteration of the loop of lines 254-261; hit is in_block at line 260,
\* FALSE when the iteration ended at the continue of line 257
AllocLine(st, line) ==
    IF Contains(line, AllocHeader)
    THEN [in_block |-> TRUE, block |-> st.block, at |-> Append(st.at, FALSE)]
    ELSE LET ib == IF Contains(line, EventsHeader) THEN FALSE ELSE st.in_block
         IN  [in_block |-> ib,
              block |-> IF /\ ib
                           /\ ~Contains(line, LimitsNotice)
                           /\ ~Contains(line, ColumnHeader)
                        THEN Append(st.block, Strip(line)) ELSE st.block,
              at |-> Append(st.at, ib)]

RECURSIVE AllocLoop(_, _)
AllocLoop(st, lines) ==
    IF lines = <<>> THEN st ELSE AllocLoop(AllocLine(st, Head(lines)), Tail(lines))

\* one iteration of the loop of lines 263-270
AllocBlockLine(agg, line) ==
    LET parts == Split(line)
    IN  IF In(CpuWord, parts)
        THEN [agg EXCEPT !.cpu_req = Tok(parts, 1), !.cpu_limit = Tok(parts, 3)]
        ELSE IF In(MemoryWord, parts)
        THEN [agg EXCEPT !.mem_req_raw = Tok(parts, 1),
                         !.mem_limit_raw = Tok(parts, 3)]
        ELSE agg

RECURSIVE AllocBlockLoop(_, _)
AllocBlockLoop(agg, block) ==
    IF block = <<>> THEN agg
    ELSE AllocBlockLoop(AllocBlockLine(agg, Head(block)), Tail(block))

\* the regular expressions of lines 273 and 276 -------------------------------

RECURSIVE SkipWs(_, _)
SkipWs(t, j) == IF j <= Len(t) /\ t[j] \in WS THEN SkipWs(t, j + 1) ELSE j

RECURSIVE SkipDigits(_, _)
SkipDigits(t, j) == IF j <= Len(t) /\ t[j] \in Digit THEN SkipDigits(t, j + 1) ELSE j

LitAt(t, j, p) ==
    /\ j + Len(p) - 1 <= Len(t)
    /\ t[j] = p[1]
    /\ SubSeq(t, j, j + Len(p) - 1) = p

\* Non-terminated Pods:\s*\([0-9]+\s*in\s*total\) matched at position i of t:
\* the digits of the group, or <<>> when there is no match at i
PodsMatchAt(t, i) ==
    LET a == SkipWs(t, i + Len(PodsHeader))
        b == SkipDigits(t, a + 1)
        c == SkipWs(t, b)
        d == SkipWs(t, c + 2)
    IN  IF /\ LitAt(t, i, PodsHeader)
           /\ LitAt(t, a, <<"(">>)
           /\ b > a + 1
           /\ LitAt(t, c, <<"i", "n">>)
           /\ LitAt(t, d, <<"t", "o", "t", "a", "l", ")">>)
        THEN SubSeq(t, a + 1, b - 1) ELSE <<>>

\* the count taken from the first line of the text alone
pods_count_first_line(lines) ==
    IF lines # <<>> /\ PodsMatchAt(lines[1], 1) # <<>>
    THEN PodsMatchAt(lines[1], 1) ELSE <<"0">>

\* lines 273-278: re.search over the whole text, num_pods stays "0" without
\* a match
pods_count(lines) ==
    LET t    == Join(lines)
        hits == {i \in 1..Len(t) : PodsMatchAt(t, i) # <<>>}
    IN  IF hits = {} THEN <<"0">>
        ELSE PodsMatchAt(t, CHOOSE i \in hits : \A j \in hits : i <= j)

\* the loop with the counter left as it is at a header
PodsLine_noreset(st, line) ==
    IF Contains(line, PodsHeader)
    THEN [in_pods_block |-> TRUE, lines_skipped |-> st.lines_skipped,
          block |-> st.block, at |-> Append(st.at, FALSE),
          skipped |-> Append(st.skipped, st.lines_skipped)]
    ELSE LET ib == IF Contains(line, AllocHeader) THEN FALSE
                   ELSE st.in_pods_block
             sk == IF ib /\ st.lines_skipped < 2 THEN st.lines_skipped + 1
                   ELSE st.lines_skipped
         IN  [in_pods_block |-> ib,
              lines_skipped |-> sk,
              block |-> IF ib /\ ~(st.lines_skipped < 2)
                        THEN Append(st.block, Strip(line)) ELSE st.block,
              at |-> Append(st.at, ib),
              skipped |-> Append(st.skipped, sk)]

\* one iteration of the loop of lines 284-295; hit is in_pods_block at line
\* 291, FALSE when the iteration ended at the continue of line 288
PodsLine(st, line) ==
    IF Contains(line, PodsHeader)
    THEN [in_pods_block |-> TRUE, lines_skipped |-> 0, block |-> st.block,
          at |-> Append(st.at, FALSE), skipped |-> Append(st.skipped, 0)]
    ELSE LET ib == IF Contains(line, AllocHeader) THEN FALSE
                   ELSE st.in_pods_block
             sk == IF ib /\ st.lines_skipped < 2 THEN st.lines_skipped + 1
                   ELSE st.lines_skipped
         IN  [in_pods_block |-> ib,
              lines_skipped |-> sk,
              block |-> IF ib /\ ~(st.lines_skipped < 2)
                        THEN Append(st.block, Strip(line)) ELSE st.block,
              at |-> Append(st.at, ib),
              skipped |-> Append(st.skipped, sk)]

RECURSIVE PodsLoop(_, _)
PodsLoop(st, lines) ==
    IF lines = <<>> THEN st ELSE PodsLoop(PodsLine(st, Head(lines)), Tail(lines))

\* one iteration of the loop of lines 297-317: the rows so far, and whether
\* a formatter raised
PodRow(st, pod_line) ==
    LET parts == Split(pod_line)
        c1 == format_cpu_m(parts[3])
        c2 == format_cpu_m(parts[5])
        m1 == convert_memory_to_mib(parts[7])
        m2 == convert_memory_to_mib(parts[9])
    IN  IF pod_line = <<>> THEN st
        ELSE IF Len(parts) >= 9
        THEN IF c1.exc \/ c2.exc \/ m1.exc \/ m2.exc
             THEN [st EXCEPT !.exc = TRUE]
             ELSE [st EXCEPT !.rows = Append(st.rows,
                       <<parts[1], parts[2], c1.val, c2.val, m1.val, m2.val>>)]
        ELSE st

RECURSIVE PodRows(_, _)
PodRows(st, block) ==
    IF block = <<>> \/ st.exc THEN st
    ELSE PodRows(PodRow(st, Head(block)), Tail(block))

----------------------------------------------------------------------------
\* get_node_details: the steps.

\* status.capacity of the node JSON: a node with capacity, and a document
\* without the keys (the lookups default to "")
NodeDocs ==
    { [cpu |-> <<"1">>, memory |-> <<"1", "9", "K", "i">>],
      [cpu |-> <<>>, memory |-> <<>>] }

\* lines 234-246: the node JSON cannot be fetched (return None, None), or
\* its capacity is formatted
FetchNode ==
    /\ pc = "start"
    /\ \/ /\ pc' = "no_node"
          /\ UNCHANGED <<node_data, cpu_capacity_formatted, mem_capacity_formatted>>
       \/ \E doc \in NodeDocs :
            LET mem == convert_memory_to_gib(doc.memory)
                cpu == format_cpu_cores(doc.cpu)
            IN  /\ node_data' = doc
                /\ IF mem.exc \/ cpu.exc
                   THEN /\ pc' = "raised"
                        /\ UNCHANGED <<cpu_capacity_formatted, mem_capacity_formatted>>
                   ELSE /\ pc' = "scan"
                        /\ mem_capacity_formatted' = mem.val
                        /\ cpu_capacity_formatted' = cpu.val
    /\ UNCHANGED <<conv_vars, node_describe_output, in_block,
                   allocated_resources_block, cpu_req, cpu_limit, mem_req_raw,
                   mem_limit_raw, num_pods, in_pods_block, lines_skipped,
                   non_terminated_pods_block, pod_details_data,
                   node_summary_data, in_block_at, in_pods_block_at, skipped_at>>

\* lines 248-278: the Allocated resources block, its four values and the pod
\* count; nothing is scanned when the describe text is empty or unavailable
ScanAllocated ==
    /\ pc = "scan"
    /\ IF node_describe_output = <<>>
       THEN /\ pc' = "summary"
            /\ UNCHANGED <<in_block, allocated_resources_block, cpu_req, cpu_limit,
                           mem_req_raw, mem_limit_raw, num_pods, in_block_at>>
       ELSE \E st \in {AllocLoop([in_block |-> FALSE, block |-> <<>>, at |-> <<>>],
                                  node_describe_output)} :
            \E agg \in {AllocBlockLoop([cpu_req |-> cpu_req,
                                        cpu_limit |-> cpu_limit,
                                        mem_req_raw |-> mem_req_raw,
                                        mem_limit_raw |-> mem_limit_raw],
                                       st.block)} :
                /\ pc' = "pods"
                /\ in_block' = st.in_block
                /\ allocated_resources_block' = st.block
                /\ in_block_at' = st.at
                /\ cpu_req' = agg.cpu_req
                /\ cpu_limit' = agg.cpu_limit
                /\ mem_req_raw' = agg.mem_req_raw
                /\ mem_limit_raw' = agg.mem_limit_raw
                /\ num_pods' = pods_count(node_describe_output)
    /\ UNCHANGED <<conv_vars, node_data, node_describe_output,
                   cpu_capacity_formatted, mem_capacity_formatted, in_pods_block,
                   lines_skipped, non_terminated_pods_block, pod_details_data,
                   node_summary_data, in_pods_block_at, skipped_at>>

\* lines 280-317: the Non-terminated Pods block and its rows
ScanPods ==
    /\ pc = "pods"
    /\ \E st \in {PodsLoop([in_pods_block |-> FALSE, lines_skipped |-> 0,
                             block |-> <<>>, at |-> <<>>, skipped |-> <<>>],
                            node_describe_output)} :
       \E rs \in {PodRows([rows |-> pod_details_data, exc |-> FALSE], st.block)} :
           /\ in_pods_block' = st.in_pods_block
           /\ lines_skipped' = st.lines_skipped
           /\ non_terminated_pods_block' = st.block
           /\ in_pods_block_at' = st.at
           /\ skipped_at' = st.skipped
           /\ pod_details_data' = rs.rows
           /\ pc' = IF rs.exc THEN "raised" ELSE "summary"
    /\ UNCHANGED <<conv_vars, node_data, node_describe_output,
                   cpu_capacity_formatted, mem_capacity_formatted, in_block,
                   allocated_resources_block, cpu_req, cpu_limit, mem_req_raw,
                   mem_limit_raw, num_pods, node_summary_data, in_block_at>>

\* lines 319-331: the node summary row
BuildSummary ==
    /\ pc = "summary"
    /\ LET mem_req_formatted   == convert_memory_to_gib(mem_req_raw)
           mem_limit_formatted == convert_memory_to_gib(mem_limit_raw)
           cpu_req_formatted   == format_cpu_cores(cpu_req)
           cpu_limit_formatted == format_cpu_cores(cpu_limit)
       IN  IF \/ mem_req_formatted.exc \/ mem_limit_formatted.exc
              \/ cpu_req_formatted.exc \/ cpu_limit_formatted.exc
           THEN pc' = "raised" /\ UNCHANGED node_summary_data
           ELSE /\ pc' = "done"
                /\ node_summary_data' =
                       <<cpu_req_formatted.val, cpu_limit_formatted.val,
                         mem_req_formatted.val, mem_limit_formatted.val,
                         cpu_capacity_formatted, mem_capacity_formatted,
                         num_pods>>
    /\ UNCHANGED <<conv_vars, node_data, node_describe_output,
                   cpu_capacity_formatted, mem_capacity_formatted, in_block,
                   allocated_resources_block, cpu_req, cpu_limit, mem_req_raw,
                   mem_limit_raw, num_pods, in_pods_block, lines_skipped,
                   non_terminated_pods_block, pod_details_data, in_block_at,
                   in_pods_block_at, skipped_at>>

Next == FetchNode \/ ScanAllocated \/ ScanPods \/ BuildSummary

----------------------------------------------------------------------------
\* Describe texts.

\* the section header with its pod count
PodsLine1 ==
    <<"N", "o", "n", "-", "t", "e", "r", "m", "i", "n", "a", "t", "e", "d",
      " ", "P", "o", "d", "s", ":", " ", " ", "(", "2", " ", "i", "n", " ",
      "t", "o", "t", "a", "l", ")">>

\* the section header
AllocLine1 ==
    <<"A", "l", "l", "o", "c", "a", "t", "e", "d", " ", "r", "e", "s", "o",
      "u", "r", "c", "e", "s", ":">>

\* a pod row
RowLine ==
    <<" ", " ", "n", "s", " ", " ", "p", "o", "d", "-", "a", " ", " ", "1",
      "0", "0", "m", " ", "(", "2", "%", ")", " ", " ", "1", " ", "(", "2",
      "5", "%", ")", " ", " ", "1", "9", "M", "i", " ", "(", "1", "%", ")",
      " ", " ", "1", "G", "i", " ", "(", "1", "3", "%", ")", " ", " ", "5",
      "d">>

\* a row of 6 tokens
ShortLine ==
    <<" ", " ", "n", "s", " ", "p", "o", "d", "-", "b", " ", "1", " ", "(",
      "0", "%", ")", " ", "0", " ", "(", "0", "%", ")">>

\* a row whose memory request is no number
BadLine ==
    <<" ", " ", "n", "s", " ", "p", "o", "d", "-", "c", " ", "0", " ", "(",
      "0", "%", ")", " ", "0", " ", "(", "0", "%", ")", " ", ".", " ", "(",
      "0", "%", ")", " ", "0", " ", "(", "0", "%", ")">>

\* a second pod row
RowLine2 ==
    <<" ", " ", "n", "s", " ", "p", "o", "d", "-", "d", " ", "1", " ", "(",
      "0", "%", ")", " ", "1", " ", "(", "0", "%", ")", " ", "0", " ", "(",
      "0", "%", ")", " ", "0", " ", "(", "0", "%", ")">>

\* an empty line
BlankLine == <<>>

\* the header that follows the section
EventsLine ==
    <<"E", "v", "e", "n", "t", "s", ":", " ", " ", "<", "n", "o", "n", "e",
      ">">>

\* the cpu line of the section
CpuLine ==
    <<" ", " ", "c", "p", "u", " ", " ", "1", "0", "0", "m", " ", "(", "5",
      "%", ")", " ", " ", "1", " ", "(", "5", "0", "%", ")">>

\* the memory line of the section
MemoryLine ==
    <<" ", " ", "m", "e", "m", "o", "r", "y", " ", " ", "1", "9", "M", "i",
      " ", "(", "1", "%", ")", " ", " ", "1", "G", "i", " ", "(", "1", "3",
      "%", ")">>

\* a line with both words
BothLine ==
    <<" ", " ", "c", "p", "u", " ", "9", " ", "m", "e", "m", "o", "r", "y",
      " ", "0">>

\* the notice, with a cpu token after it
NoticeLine ==
    <<" ", " ", "(", "T", "o", "t", "a", "l", " ", "l", "i", "m", "i", "t",
      "s", " ", "m", "a", "y", " ", "e", "x", "c", "e", "e", "d", " ", "a",
      "l", "l", "o", "c", "a", "t", "a", "b", "l", "e", " ", "r", "e", "s",
      "o", "u", "r", "c", "e", "s", ".", ")", " ", "c", "p", "u", " ", "0",
      " ", "x", " ", "0">>

\* the column header, with a memory token after it
ColumnLine ==
    <<" ", " ", "R", "e", "s", "o", "u", "r", "c", "e", " ", " ", " ", " ",
      " ", " ", " ", " ", " ", " ", " ", "R", "e", "q", "u", "e", "s", "t",
      "s", " ", " ", " ", " ", " ", " ", " ", " ", " ", "L", "i", "m", "i",
      "t", "s", " ", "m", "e", "m", "o", "r", "y">>

\* run_command returns stdout.strip(): the text neither starts nor ends
\* with white space
Stripped(lines) ==
    \/ lines = <<>>
    \/ /\ lines[1] # <<>> /\ lines[1][1] \notin WS
       /\ lines[Len(lines)] # <<>>
       /\ lines[Len(lines)][Len(lines[Len(lines)])] \notin WS

Texts(Lines, max) ==
    { t \in UNION { [1..n -> Lines] : n \in 0..max } : Stripped(t) }

ConvIdle ==
    /\ value = <<>>
    /\ fn = ""
    /\ result = NoResult
    /\ fn2 = ""
    /\ result2 = NoResult

NodeStart(texts) ==
    /\ ConvIdle
    /\ numfmt_ok \in BOOLEAN
    /\ pc = "start"
    /\ node_data = [cpu |-> <<>>, memory |-> <<>>]
    /\ node_describe_output \in texts
    /\ cpu_capacity_formatted = <<>>
    /\ mem_capacity_formatted = <<>>
    /\ in_block = FALSE
    /\ allocated_resources_block = <<>>
    /\ cpu_req = <<>>
    /\ cpu_limit = <<>>
    /\ mem_req_raw = <<>>
    /\ mem_limit_raw = <<>>
    /\ num_pods = <<"0">>
    /\ in_pods_block = FALSE
    /\ lines_skipped = 0
    /\ non_terminated_pods_block = <<>>
    /\ pod_details_data = <<>>
    /\ node_summary_data = <<>>
    /\ in_block_at = <<>>
    /\ in_pods_block_at = <<>>
    /\ skipped_at = <<>>

PodLines == {PodsLine1, AllocLine1, RowLine, ShortLine, BadLine, BlankLine}

AllocLines == {AllocLine1, EventsLine, CpuLine, MemoryLine, BothLine,
               NoticeLine, ColumnLine}

\* texts around the Non-terminated Pods section
Init == NodeStart(Texts(PodLines, MaxPodLines))

Spec == Init /\ [][Next]_vars

RowLines == {PodsLine1, AllocLine1, RowLine, RowLine2, BadLine, BlankLine}

\* texts with two different pod rows
RowInit == NodeStart(Texts(RowLines, MaxPodLines))

RowSpec == RowInit /\ [][Next]_vars

\* texts around the Allocated resources section
AllocInit == NodeStart(Texts(AllocLines, MaxAllocLines))

AllocSpec == AllocInit /\ [][Next]_vars

----------------------------------------------------------------------------
\* Claims about the converters (checked under ConvSpec).

NumPart(s) == SubSeq(s, 1, NumPrefixLen(s))

UnitPart(s) == SubSeq(s, NumPrefixLen(s) + 1, Len(s))

\* s is <digits and dots>m with a part before the m that is no number
BadMilli(s) ==
    s # <<>> /\ s[Len(s)] = "m" /\ ~IsFloatLit(SubSeq(s, 1, Len(s) - 1))

\* s is made of digits and dots only and is no number
BadNumber(s) == s # <<>> /\ UnitPart(s) = <<>> /\ ~IsFloatLit(s)

\* C1: a malformed quantity string never raises: convert_memory_to_bytes
\* gives 0 for it and the CPU formatters return it unchanged, so the record
\* that holds the field is still produced.
C1_MalformedDegrades ==
    /\ (fn = "convert_memory_to_bytes" /\ BadNumber(value)) => result = Ret(<<>>)
    /\ (fn \in {"convert_memory_to_gib", "convert_memory_to_mib"}
            /\ BadNumber(value)) => result = Ret(<<>>)
    /\ (fn \in {"format_cpu_cores", "format_cpu_m"} /\ BadMilli(value))
            => result = Ret(value)

KUnits == {<<"k", "i">>, <<"k">>, <<"k", "i", "b">>}
MUnits == {<<"m", "i">>, <<"m">>, <<"m", "i", "b">>}
GUnits == {<<"g", "i">>, <<"g">>, <<"g", "i", "b">>}
TUnits == {<<"t", "i">>, <<"t">>, <<"t", "i", "b">>}

\* floor(v * 1024^k) for the decimal literal num
ScaledFloor(num, k) ==
    BigDivPow10(BigShift(BigFromDigits(LitDigits(num), <<>>), k), LitScale(num))

\* C3: the manual parse maps a number followed by a unit, matched whatever
\* its case, to the integer part of the number times the binary multiplier
\* of the unit, a number without unit to its integer part, and empty or
\* unparseable input to 0; it always returns a non-negative integer.
C3_ManualParse ==
    (fn = "convert_memory_to_bytes" /\ ~numfmt_ok) =>
        LET num  == NumPart(value)
            unit == LowerStr(UnitPart(value))
        IN  /\ ~result.exc
            /\ (IsFloatLit(num) /\ unit \in KUnits) => result.val = ScaledFloor(num, 1)
            /\ (IsFloatLit(num) /\ unit \in MUnits) => result.val = ScaledFloor(num, 2)
            /\ (IsFloatLit(num) /\ unit \in GUnits) => result.val = ScaledFloor(num, 3)
            /\ (IsFloatLit(num) /\ unit \in TUnits) => result.val = ScaledFloor(num, 4)
            /\ (IsFloatLit(num) /\ unit = <<>>) => result.val = ScaledFloor(num, 0)
            /\ (value = <<>> \/ ~IsFloatLit(num)) => result.val = <<>>

\* the string s is <int>.<2 digits><suffix> and names the hundredths nearest
\* to a / b
IsNearestFixed2(s, suffix, a, b) ==
    /\ EndsWith(s, suffix)
    /\ LET t == SubSeq(s, 1, Len(s) - Len(suffix))
       IN  /\ IsFloatLit(t)
           /\ LitScale(t) = 2
           /\ DotAt(t) > 1
           /\ LET h == IntFromDigits(LitDigits(t), 0)
              IN  /\ 2 * (h * b - 100 * a) <= b
                  /\ 2 * (100 * a - h * b) <= b

\* the string s is <int>m and names the integer nearest to a / b
IsNearestMilli(s, a, b) ==
    /\ EndsWith(s, <<"m">>)
    /\ LET t == SubSeq(s, 1, Len(s) - 1)
       IN  /\ IsFloatLit(t)
           /\ DotAt(t) = 0
           /\ LET k == IntFromDigits(t, 0)
              IN  /\ 2 * (k * b - a) <= b
                  /\ 2 * (a - k * b) <= b

\* C4: format_cpu_cores divides the number before a trailing m by 1000,
\* takes any other number as cores, and formats with two decimals and the
\* suffix cores; format_cpu_m returns an input ending in m unchanged and
\* turns any other number into the nearest integer of 1000 times it,
\* suffixed with m; both give "" for "" and return a non-numeric input
\* without m suffix unchanged.
C4_CpuFormatters ==
    LET isM  == value # <<>> /\ value[Len(value)] = "m"
        pre  == SubSeq(value, 1, Len(value) - 1)
        mant(t) == IntFromDigits(LitDigits(t), 0)
    IN  /\ fn = "format_cpu_cores" =>
            /\ value = <<>> => result = Ret(<<>>)
            /\ (isM /\ IsFloatLit(pre)) =>
                   /\ ~result.exc
                   /\ IsNearestFixed2(result.val, Cores, mant(pre),
                                      1000 * Pow(10, LitScale(pre)))
            /\ (~isM /\ IsFloatLit(value)) =>
                   /\ ~result.exc
                   /\ IsNearestFixed2(result.val, Cores, mant(value),
                                      Pow(10, LitScale(value)))
            /\ (~isM /\ ~IsFloatLit(value)) => result = Ret(value)
        /\ fn = "format_cpu_m" =>
            /\ value = <<>> => result = Ret(<<>>)
            /\ isM => result = Ret(value)
            /\ (~isM /\ IsFloatLit(value)) =>
                   /\ ~result.exc
                   /\ IsNearestMilli(result.val, 1000 * mant(value),
                                     Pow(10, LitScale(value)))
            /\ (~isM /\ ~IsFloatLit(value)) => result = Ret(value)

\* format_cpu_cores("190m") = "0.19cores" and format_cpu_m(".19") = "190m"
C4_Witness ==
    \/ /\ fn = "format_cpu_cores"
       /\ value = <<"1", "9", "0", "m">>
       /\ result = Ret(<<"0", ".", "1", "9">> \o Cores)
       /\ fn2 = "format_cpu_m"
    \/ /\ fn = "format_cpu_m"
       /\ value = <<".", "1", "9">>
       /\ result = Ret(<<"1", "9", "0", "m">>)
       /\ fn2 = "format_cpu_cores"


\* |x - y| <= g
BigWithin(x, y, g) == BigLeq(x, BigAdd(y, g)) /\ BigLeq(y, BigAdd(x, g))

\* 0.01 GiB rounded up to whole bytes, and 1 MiB
GibGrain == BigTrim(BigMulAdd(BigDiv(BigShift(<<1>>, 3), 100), 1, 1))
MibGrain == BigShift(<<1>>, 2)

\* the canonical byte count of the input
CanonBytes == convert_memory_to_bytes(value).val

\* the input is a whole-millicore CPU value: <digits>m, or cores with at most
\* three decimals
WholeMilli ==
    \/ /\ value # <<>> /\ value[Len(value)] = "m"
       /\ IsFloatLit(SubSeq(value, 1, Len(value) - 1))
       /\ DotAt(value) = 0
    \/ IsFloatLit(value) /\ LitScale(value) <= 3

\* the canonical millicore count of a whole-millicore input
CanonMilli ==
    IF value[Len(value)] = "m"
    THEN IntFromDigits(SubSeq(value, 1, Len(value) - 1), 0)
    ELSE IntFromDigits(LitDigits(value), 0) * Pow(10, 3 - LitScale(value))

\* the string s is <digits>m and its number is within g of k
MilliWithin(s, k, g) ==
    /\ s # <<>> /\ s[Len(s)] = "m"
    /\ LET t == SubSeq(s, 1, Len(s) - 1)
       IN  /\ IsFloatLit(t) /\ DotAt(t) = 0
           /\ IntFromDigits(t, 0) - k <= g
           /\ k - IntFromDigits(t, 0) <= g

MemRoundTrip ==
    /\ (fn = "convert_memory_to_gib" /\ fn2 = "convert_memory_to_bytes") =>
           ~result2.exc /\ BigWithin(result2.val, CanonBytes, GibGrain)
    /\ (fn = "convert_memory_to_mib" /\ fn2 = "convert_memory_to_bytes") =>
           ~result2.exc /\ BigWithin(result2.val, CanonBytes, MibGrain)

MilliRoundTrip ==
    (fn = "format_cpu_m" /\ WholeMilli /\ fn2 = "format_cpu_m") =>
        ~result2.exc /\ MilliWithin(result2.val, CanonMilli, 0)

----------------------------------------------------------------------------
\* Claims about the scan of the describe text (checked under Spec, and under
\* AllocSpec where said).

NoAllocHeader ==
    \A i \in 1..Len(node_describe_output) :
        ~Contains(node_describe_output[i], AllocHeader)

NoPodsHeader ==
    \A i \in 1..Len(node_describe_output) :
        ~Contains(node_describe_output[i], PodsHeader)

NoAggregates ==
    /\ cpu_req = <<>>
    /\ cpu_limit = <<>>
    /\ mem_req_raw = <<>>
    /\ mem_limit_raw = <<>>

\* the scan is over: the rows are collected, or a formatter has raised
Scanned == pc \in {"summary", "done", "raised"}

\* the defaults of a text without a section header
C2_Defaults ==
    Scanned =>
        /\ NoAllocHeader => NoAggregates
        /\ NoPodsHeader => pod_details_data = <<>> /\ num_pods = <<"0">>

\* C2: a text without the Allocated resources header leaves the four
\* aggregate values empty, a text without the Non-terminated Pods header
\* leaves the pod-detail list empty and the pod count "0", and in both cases
\* the node-summary row is still produced (get_node_details does not raise).
C2_AbsentHeaderDefaults ==
    /\ C2_Defaults
    /\ NoAllocHeader \/ NoPodsHeader =>
           /\ pc # "raised"
           /\ pc = "done" => Len(node_summary_data) = 7

\* the lines of the pods block that have at least 9 tokens
AcceptedLines == SelectSeq(non_terminated_pods_block,
                           LAMBDA l : Len(Split(l)) >= 9)

\* the row the claim builds from tokens 0, 1, 2, 4, 6 and 8 of a line
RowOf(l) ==
    LET parts == Split(l)
    IN  <<parts[1], parts[2], format_cpu_m(parts[3]).val,
          format_cpu_m(parts[5]).val, convert_memory_to_mib(parts[7]).val,
          convert_memory_to_mib(parts[9]).val>>

\* C6: every non-blank line of the Non-terminated Pods block with at least 9
\* tokens yields exactly one row, built from its tokens 0, 1, 2, 4, 6 and 8,
\* and a line with fewer tokens yields none: the rows are those of the lines
\* with at least 9 tokens, one each, in that order.
C6_OneRowPerDataLine ==
    Scanned =>
        /\ Len(pod_details_data) = Len(AcceptedLines)
        /\ \A k \in 1..Len(AcceptedLines) :
               pod_details_data[k] = RowOf(AcceptedLines[k])

\* line i of the text is inside the Allocated resources section as the claim
\* delimits it: no header itself, after a header that opens the section and
\* with no Events: line in between
InsideAllocated(i) ==
    LET t == node_describe_output
    IN  /\ ~Contains(t[i], AllocHeader)
        /\ ~Contains(t[i], EventsHeader)
        /\ \E h \in 1..(i - 1) :
               /\ Contains(t[h], AllocHeader)
               /\ \A j \in (h + 1)..(i - 1) :
                      Contains(t[j], EventsHeader) => Contains(t[j], AllocHeader)

\* the lines that may set a value: inside the section, neither the notice nor
\* the column header
Counted ==
    { i \in 1..Len(node_describe_output) :
        /\ InsideAllocated(i)
        /\ ~Contains(node_describe_output[i], LimitsNotice)
        /\ ~Contains(node_describe_output[i], ColumnHeader) }

CpuLinesAt == { i \in Counted : In(CpuWord, Split(node_describe_output[i])) }

MemoryLinesAt == { i \in Counted : In(MemoryWord, Split(node_describe_output[i])) }

MemoryOnlyLinesAt == MemoryLinesAt \ CpuLinesAt

\* token k (counted from 0) of the last line of S, "" without such a line or
\* such a token
LastTok(S, k) ==
    IF S = {} THEN <<>>
    ELSE Tok(Split(node_describe_output[CHOOSE i \in S : \A j \in S : j <= i]), k)

AllocScanned == pc \in {"pods", "summary", "done", "raised"}

\* C7: the four aggregate values come only from the lines inside the open
\* Allocated resources section, the notice and the column header excluded: a
\* line whose tokens include cpu sets the cpu request and limit to its 2nd
\* and 4th tokens, a line whose tokens include memory sets the memory request
\* and limit to its 2nd and 4th tokens.
C7_AggregatesFromSection ==
    AllocScanned =>
        /\ cpu_req = LastTok(CpuLinesAt, 1)
        /\ cpu_limit = LastTok(CpuLinesAt, 3)
        /\ mem_req_raw = LastTok(MemoryLinesAt, 1)
        /\ mem_limit_raw = LastTok(MemoryLinesAt, 3)

\* C7: as above, but a line sets the memory request and limit only if its
\* tokens include memory and do not include cpu (a line with both words sets
\* the cpu values alone).
C7_Aggregates ==
    AllocScanned =>
        /\ cpu_req = LastTok(CpuLinesAt, 1)
        /\ cpu_limit = LastTok(CpuLinesAt, 3)
        /\ mem_req_raw = LastTok(MemoryOnlyLinesAt, 1)
        /\ mem_limit_raw = LastTok(MemoryOnlyLinesAt, 3)

\* a section with a memory line, the notice and a line with both words
C7_Witness ==
    /\ pc = "done"
    /\ cpu_req = <<"9">>
    /\ mem_req_raw = <<"1", "9", "M", "i">>
    /\ mem_limit_raw = <<"1", "G", "i">>
    /\ \E i \in 1..Len(node_describe_output) :
           InsideAllocated(i) /\ Contains(node_describe_output[i], LimitsNotice)

InTotal == <<" ", "i", "n", " ", "t", "o", "t", "a", "l", ")">>

\* the lines that carry the annotation `Non-terminated Pods: (<N> in total)`
AnnotatedAt ==
    { i \in 1..Len(node_describe_output) :
        /\ StartsWith(node_describe_output[i], PodsHeader)
        /\ EndsWith(node_describe_output[i], InTotal) }

\* the N of an annotation line: what stands between "(" and " in total)"
AnnotationN(l) ==
    LET p == CHOOSE q \in 1..Len(l) : l[q] = "("
    IN  SubSeq(l, p + 1, Len(l) - Len(InTotal))

\* C8: the pod count is the N of the annotation found anywhere in the text
\* ("0" without one), whatever the section flags, the skip counter, the
\* Allocated resources section and the accepted rows are; a text that is only
\* the annotation line gives N, empty aggregates and no pod-detail row.
C8_PodCount ==
    AllocScanned =>
        /\ num_pods =
               IF AnnotatedAt = {} THEN <<"0">>
               ELSE AnnotationN(node_describe_output[
                        CHOOSE i \in AnnotatedAt : \A j \in AnnotatedAt : i <= j])
        /\ pc = "done" => node_summary_data[7] = num_pods
        /\ Len(node_describe_output) = 1 /\ AnnotatedAt = {1} /\ Scanned =>
               NoAggregates /\ pod_details_data = <<>>

\* a count of 2 beside a single accepted row
C8_Witness ==
    /\ pc = "done"
    /\ num_pods = <<"2">>
    /\ Len(pod_details_data) = 1
    /\ node_summary_data[7] = <<"2">>

\* the text from the last line that contains the header h on (the whole text
\* without such a line)
FromLast(lines, h) ==
    LET at == { i \in 1..Len(lines) : Contains(lines[i], h) }
    IN  IF at = {} THEN lines
        ELSE SubSeq(lines, CHOOSE i \in at : \A j \in at : j <= i, Len(lines))

\* C9: when a section header occurs more than once the output of the section
\* is that of its last instance alone: the pod-detail rows and the aggregate
\* values are those of the text cut at the last header of the section.
C9_LastWins ==
    pc \in {"summary", "done"} /\ node_describe_output # <<>> =>
        /\ pod_details_data =
               PodRows([rows |-> <<>>, exc |-> FALSE],
                       PodsLoop([in_pods_block |-> FALSE, lines_skipped |-> 0,
                                 block |-> <<>>, at |-> <<>>, skipped |-> <<>>],
                                FromLast(node_describe_output, PodsHeader)).block).rows
        /\ [cpu_req |-> cpu_req, cpu_limit |-> cpu_limit,
            mem_req_raw |-> mem_req_raw, mem_limit_raw |-> mem_limit_raw] =
               AllocBlockLoop([cpu_req |-> <<>>, cpu_limit |-> <<>>,
                               mem_req_raw |-> <<>>, mem_limit_raw |-> <<>>],
                              AllocLoop([in_block |-> FALSE, block |-> <<>>,
                                         at |-> <<>>],
                                        FromLast(node_describe_output,
                                                 AllocHeader)).block)

\* C10: no line of the text is treated as inside the Allocated resources
\* section and inside the Non-terminated Pods section at once.
C10_OneSectionAtATime ==
    \A i \in 1..Len(in_pods_block_at) : ~(in_block_at[i] /\ in_pods_block_at[i])

\* lines of the text that are data lines of the Non-terminated Pods section:
\* no header, after a header h that opens the section with no other header
\* in between, and not one of the two lines that follow h
DataAt ==
    LET t == node_describe_output
    IN  { i \in 1..Len(t) :
            /\ ~Contains(t[i], PodsHeader)
            /\ ~Contains(t[i], AllocHeader)
            /\ \E h \in 1..(i - 3) :
                   /\ Contains(t[h], PodsHeader)
                   /\ \A j \in (h + 1)..(i - 1) :
                          /\ ~Contains(t[j], PodsHeader)
                          /\ ~Contains(t[j], AllocHeader) }

\* the data lines a row is accepted from: at least 9 tokens
AcceptedAt == { i \in DataAt : Len(Split(node_describe_output[i])) >= 9 }

\* the place of the row of line i among the rows of the accepted lines
RankOf(i) == Cardinality({ k \in AcceptedAt : k <= i })

\* C11: the pod-detail rows keep the order of the lines of the text: every
\* accepted data line contributes exactly one row, and the row of a line that
\* comes earlier in the text comes earlier in the list.
C11_RowsInLineOrder ==
    Scanned =>
        /\ Len(pod_details_data) = Cardinality(AcceptedAt)
        /\ \A i \in AcceptedAt :
               pod_details_data[RankOf(i)] = RowOf(node_describe_output[i])

\* C12: a line with the Non-terminated Pods header resets the skip counter
\* to 0, the counter never exceeds 2, and the two lines seen after the header
\* while the section is open are discarded whatever they hold: the block is
\* made of the data lines alone, in order, so that neither a header line nor
\* one of the two lines after it gives a pod-detail row.
C12_SkipCounter ==
    /\ lines_skipped <= 2
    /\ \A i \in 1..Len(skipped_at) :
           /\ skipped_at[i] <= 2
           /\ Contains(node_describe_output[i], PodsHeader) => skipped_at[i] = 0
    /\ Scanned =>
           /\ Len(non_terminated_pods_block) = Cardinality(DataAt)
           /\ \A i \in DataAt :
                  non_terminated_pods_block[Cardinality({ k \in DataAt : k <= i })]
                      = Strip(node_describe_output[i])
           /\ Len(pod_details_data) <= Cardinality(AcceptedAt)
           /\ \A k \in 1..Len(pod_details_data) :
                  \E i \in AcceptedAt :
                      pod_details_data[k] = RowOf(node_describe_output[i])

\* a well-formed row and an empty line discarded after the header, and the
\* row after them kept
C12_Witness ==
    /\ pc = "done"
    /\ Len(pod_details_data) = 1
    /\ \E h \in 1..Len(node_describe_output) :
           /\ Contains(node_describe_output[h], PodsHeader)
           /\ h + 3 \in DataAt
           /\ node_describe_output[h + 1] = RowLine
           /\ node_describe_output[h + 2] = BlankLine
           /\ skipped_at[h] = 0
           /\ skipped_at[h + 2] = 2

============================================================================
